---- MODULE Spec2Model ----
(***************************************************************************)
(* Model of the multi-stream playback synchronisation of                   *)
(* src/src/components/simple-videos-player.tsx (SimpleVideosPlayer), with  *)
(* the clock of the time context and the callers in episode-viewer.tsx.    *)
(*                                                                         *)
(* Units.  Media time (currentTime of the clock and of every <video>) is   *)
(* counted in steps of 0.05 s, so 0.05 s = 1, 0.5 s = 10, 1 s = 20.        *)
(* Wall time (Date.now) is counted in ticks of 50 ms, so 100 ms = 2.       *)
(*                                                                         *)
(* Scheduling.  One action is one task of the event loop.  State updates   *)
(* made inside a user input (click, key, scrub) are rendered, and their    *)
(* effects run, inside the same action.  State updates made by a timer or  *)
(* a media event are rendered by the later action Flush, and other tasks   *)
(* may run in between.                                                     *)
(***************************************************************************)
EXTENDS Integers, Sequences, FiniteSets

\* ---------------------------------------------------------------- numbers

\* 0.05 s: the epsilon of the segment boundary test
SegmentEps == 1
\* 0.5 s: deadband of a non-main video
FollowerThreshold == 10
\* 1 s: deadband of the main video
LeaderThreshold == 20
\* 1 s: a larger change of currentTime is an external jump
JumpThreshold == 20
\* 100 ms: minimum spacing of two applied leader time updates
ThrottleTicks == 2
\* findIndex's "not found" (-1 in the source, indices here start at 1)
NoIdx == 0

\* logical length of the episode (1.5 s)
EpisodeLen == 30
\* ghost call counters saturate here
CallCap == 3
\* user inputs (hide, show, play/pause, seek) in one run
MaxInputs == 2

Abs(x) == IF x < 0 THEN -x ELSE x
Min(a, b) == IF a < b THEN a ELSE b

\* ------------------------------------------------------------------ inputs

\* A stream whose file holds exactly the episode.
PlainInfo ==
    [isSegmented |-> FALSE, segmentStart |-> 0, segmentEnd |-> 0,
     duration |-> EpisodeLen]

\* A stream whose file is longer: the episode is [segmentStart, segmentEnd).
SegInfo ==
    [isSegmented |-> TRUE, segmentStart |-> 15, segmentEnd |-> 15 + EpisodeLen,
     duration |-> 30 + EpisodeLen]

\* The stream lists a mount is checked with.
VideoConfigs == { <<SegInfo, PlainInfo>>, <<PlainInfo, SegInfo>> }

\* Values of the URL parameter t (0: no parameter) inside the episode.
UrlTimes == {0, 15}

\* A value of t past the end of the episode: parseFloat takes any number.
PastEndTimes == {EpisodeLen + 10}

\* Positions the scrub bar or a reset writes.
SeekTargets == {0, EpisodeLen}

\* How far a playing stream moves between two looks at it (0.75 s).
AdvanceSteps == {15}

VARIABLES
    videosInfo,          \* props.videosInfo
    hiddenVideos,        \* indices of the hidden streams
    videoRefs,           \* videoRefs.current: one element record per index
    detachedReady,       \* indices whose unmounted element still holds markReady
    staleReady,          \* the same, for elements of a replaced stream list
    staleLen,            \* videosInfo.length in the closure of those listeners
    readySetRef,
    hasCalledReadyRef,
    isSyncingRef,
    lastTimeUpdateRef,   \* ticks since lastTimeUpdateRef.current, saturating
    prevCurrentTimeRef,
    currentTime,
    isPlaying,
    videosReady,
    rendered,            \* the state and props the effects last ran with
    boundaryLeader,      \* firstVisibleIdx captured by the boundary handlers
    setupTimer,
    fallbackTimer,
    onVideosReadyCalls,  \* ghost: calls of onVideosReady
    setIsPlayingCalls,   \* ghost: calls of setIsPlaying(true) by triggerReady
    sinceFeedback,       \* ghost: ticks since handleTimeUpdate wrote the clock
    inputs,              \* ghost: user inputs so far
    ev,                  \* ghost: what the last step did
    currentDatasetUrl,   \* versionUtils.ts: the module's variable
    processEnv,          \* process.env: DATASET_URL, NODE_TLS_REJECT_UNAUTHORIZED
    calls,               \* the withDatasetUrl calls of the process, by slot
    idleUrl,             \* ghost: currentDatasetUrl when no call was in flight
    lastCall,            \* ghost: the function of versionUtils.ts the last step ran
    lastUrlSecondRef,    \* episode-viewer.tsx: lastUrlSecondRef.current
    location,            \* the page's URL and what was posted to the parent
    viewerRendered       \* what the URL effect of the viewer last ran with

\* the variables of versionUtils.ts (the server process)
serverVars == <<currentDatasetUrl, processEnv, calls, idleUrl, lastCall>>

\* the variables of the URL effect of episode-viewer.tsx
viewerVars == <<lastUrlSecondRef, location, viewerRendered>>

\* the variables of the player
elementVars ==
    <<videosInfo, hiddenVideos, videoRefs, detachedReady, staleReady, staleLen,
      readySetRef,
      hasCalledReadyRef, isSyncingRef, lastTimeUpdateRef, prevCurrentTimeRef,
      videosReady, rendered, boundaryLeader,
      setupTimer, fallbackTimer, onVideosReadyCalls, setIsPlayingCalls,
      sinceFeedback, inputs, ev>>

\* the player and the clock
playerVars == <<elementVars, currentTime, isPlaying>>

vars == <<playerVars, serverVars, viewerVars>>

Indices == 1..Len(videosInfo)

\* ---------------------------------------------------------- video elements

\* A <video> element as first mounted: no data, at 0, paused, no listener.
\*   readyHandler: "none" | "armed" (markReady listening) | "marked"
\*   boundary:     the listener of the boundary effect is attached
\*   timeupdate:   the timeupdate a seek has queued: "none", "seek", or
\*                 "sync" when the seek was one of the sync effect and no
\*                 animation frame has run since
\*   play:         play() was called and its play event is queued
\*   rejected:     the promise of the last play() was rejected
NewVideo ==
    [mounted |-> TRUE, readyState |-> 0, currentTime |-> 0, paused |-> TRUE,
     readyHandler |-> "none", boundary |-> FALSE, timeupdate |-> "none",
     play |-> FALSE, rejected |-> FALSE]

\* videoRefs.current[idx] = null
NullVideo == [NewVideo EXCEPT !.mounted = FALSE]

\* video.currentTime = t; with data loaded the seek queues a timeupdate
SetVideoTime(v, t) ==
    [v EXCEPT !.currentTime = t,
              !.timeupdate = IF v.readyState > 0 /\ @ = "none" THEN "seek" ELSE @]

SegStart(info) == info.segmentStart
SegEnd(info) == IF info.segmentEnd # 0 THEN info.segmentEnd ELSE info.duration

\* video.play(): a paused element starts and queues a play event
PlayVideo(v) ==
    IF v.paused
    THEN [v EXCEPT !.paused = FALSE, !.play = TRUE, !.rejected = FALSE]
    ELSE v

PauseVideo(v) == [v EXCEPT !.paused = TRUE]

\* (variant) a leader fixed at the first stream, whatever is hidden
FirstVisibleIdxFixed(hidden) == 1

FirstVisibleIdx(hidden) ==
    IF \E i \in Indices : i \notin hidden
    THEN CHOOSE i \in Indices :
            /\ i \notin hidden
            /\ \A j \in Indices : j \notin hidden => i <= j
    ELSE NoIdx

\* ------------------------------------------------------------ state bundle

\* What the last step did (ghost):
\*   event:     the stream whose timeupdate or ended event was dispatched
\*   ended:     the event dispatched was ended
\*   stale:     a ready listener of a replaced stream list ran
\*   writer:    the stream whose event handler called setCurrentTime
\*   input:     the user input of the step: "none", "hide", "show", "key",
\*              "seek" (a control outside the player set the clock) or
\*              "replace" (the parent passed another stream list)
\*   feedback:  what handleTimeUpdate did: "none" (not called), "applied",
\*              "syncing" or "throttled" (returned early)
\*   afterPush: the timeupdate dispatched was queued by a seek of the sync
\*              effect in the running animation frame
\*   sync:      the sync effect ran past its videosReady test
\*   main:      the index the sync effect took as the main video
\*   jump:      the sync effect found an external jump
\*   mainAt:    where the main video stood when the sync effect began
\*   seeks:     the videos the sync effect seeked
\*   early:     the segmented videos the play/pause effect called play() on
\*              while they stood before their segment start
NoEv ==
    [event |-> NoIdx, ended |-> FALSE, stale |-> FALSE, writer |-> NoIdx,
     input |-> "none",
     feedback |-> "none",
     afterPush |-> FALSE, sync |-> FALSE, main |-> NoIdx, jump |-> FALSE,
     mainAt |-> 0, seeks |-> {}, early |-> {}]

St ==
    [hiddenVideos |-> hiddenVideos, videoRefs |-> videoRefs,
     detachedReady |-> detachedReady, staleReady |-> staleReady,
     staleLen |-> staleLen, readySetRef |-> readySetRef,
     hasCalledReadyRef |-> hasCalledReadyRef, isSyncingRef |-> isSyncingRef,
     lastTimeUpdateRef |-> lastTimeUpdateRef,
     prevCurrentTimeRef |-> prevCurrentTimeRef, currentTime |-> currentTime,
     isPlaying |-> isPlaying, videosReady |-> videosReady,
     rendered |-> rendered, boundaryLeader |-> boundaryLeader,
     onVideosReadyCalls |-> onVideosReadyCalls,
     setIsPlayingCalls |-> setIsPlayingCalls,
     sinceFeedback |-> sinceFeedback,
     ev |-> NoEv]


Commit(s) ==
    /\ hiddenVideos' = s.hiddenVideos
    /\ videoRefs' = s.videoRefs
    /\ detachedReady' = s.detachedReady
    /\ staleReady' = s.staleReady
    /\ staleLen' = s.staleLen
    /\ readySetRef' = s.readySetRef
    /\ hasCalledReadyRef' = s.hasCalledReadyRef
    /\ isSyncingRef' = s.isSyncingRef
    /\ lastTimeUpdateRef' = s.lastTimeUpdateRef
    /\ prevCurrentTimeRef' = s.prevCurrentTimeRef
    /\ currentTime' = s.currentTime
    /\ isPlaying' = s.isPlaying
    /\ videosReady' = s.videosReady
    /\ rendered' = s.rendered
    /\ boundaryLeader' = s.boundaryLeader
    /\ onVideosReadyCalls' = s.onVideosReadyCalls
    /\ setIsPlayingCalls' = s.setIsPlayingCalls
    /\ sinceFeedback' = s.sinceFeedback
    /\ ev' = s.ev
    /\ UNCHANGED <<videosInfo, serverVars, viewerVars>>

\* The page as mounted with the clock at t.
Mount(t) ==
    /\ videosInfo \in VideoConfigs
    /\ hiddenVideos = {}
    /\ videoRefs = [i \in 1..Len(videosInfo) |-> NewVideo]
    /\ detachedReady = {}
    /\ staleReady = {}
    /\ staleLen = 0
    /\ readySetRef = {}
    /\ hasCalledReadyRef = FALSE
    /\ isSyncingRef = FALSE
    /\ lastTimeUpdateRef = ThrottleTicks
    /\ prevCurrentTimeRef = 0
    /\ currentTime = t
    /\ isPlaying = FALSE
    /\ videosReady = FALSE
    /\ rendered = [currentTime |-> t, isPlaying |-> FALSE,
                   videosReady |-> FALSE, videosInfo |-> videosInfo]
    /\ boundaryLeader = NoIdx
    /\ setupTimer = "pending"
    /\ fallbackTimer = "pending"
    /\ onVideosReadyCalls = 0
    /\ setIsPlayingCalls = 0
    /\ sinceFeedback = ThrottleTicks
    /\ inputs = 0
    /\ ev = NoEv

\* undefined, null or "" as a dataset URL (all falsy)
NoUrl == ""

\* How many withDatasetUrl calls the process has in flight at once.
MaxCalls == 2
CallIds == 1..MaxCalls

\* A slot no withDatasetUrl call has used yet.
\*   pc:          "idle", "awaiting" (behind setCurrentDatasetUrl, inside
\*                await fn()) or "settled" (fn's promise has settled, the
\*                finally block has not run)
\*   datasetUrl:  the argument
\*   previousUrl: the const of line 59
\*   outcome:     how fn's promise settled
\*   overlapped:  ghost: another call was in flight during this one
IdleCall ==
    [pc |-> "idle", datasetUrl |-> NoUrl, previousUrl |-> NoUrl,
     outcome |-> "none", overlapped |-> FALSE]

\* What the last step ran of versionUtils.ts (ghost):
\*   fn:    "withDatasetUrl" (up to its await), "getDatasetUrl", "fn" (fn's
\*          promise settled), "finally", "setCurrentDatasetUrl",
\*          "clearCurrentDatasetUrl", or "none"
\*   call:  the withDatasetUrl call it belongs to (0: none)
\*   url:   the URL passed or returned
\*   alone: no other call overlapped the call that has just completed
\*   result: how the promise of the call that has just completed settled
NoCall ==
    [fn |-> "none", call |-> 0, url |-> NoUrl, alone |-> FALSE,
     result |-> "none"]

\* versionUtils.ts as loaded by a process whose DATASET_URL is envUrl
\* (lines 5-12): no call has been made.
ModuleLoad(envUrl) ==
    /\ currentDatasetUrl = NoUrl
    /\ processEnv =
          [DATASET_URL |-> envUrl,
           NODE_TLS_REJECT_UNAUTHORIZED |->
                IF envUrl # NoUrl THEN "0" ELSE "unset"]
    /\ calls = [c \in CallIds |-> IdleCall]
    /\ idleUrl = NoUrl
    /\ lastCall = NoCall

\* The viewer as first rendered on a page whose URL has the second urlT as
\* its t (-1: no t), inside a parent window or not; no effect has run.
\*   location.t:        the t of the page's URL
\*   location.embedded: window.parent !== window
\*   location.written:  ghost: the second the URL effect last wrote (-1: none)
\*   location.ran, rewrote, posted: ghost: the URL effect ran in the last
\*                      step, called replaceState, posted to the parent
ViewerMount(urlT, embedded) ==
    /\ lastUrlSecondRef = -1
    /\ location = [t |-> urlT, embedded |-> embedded, written |-> -1,
                   ran |-> FALSE, rewrote |-> FALSE, posted |-> FALSE]
    /\ viewerRendered =
          [currentTime |-> 0, isPlaying |-> FALSE, mounted |-> FALSE]

\* The player is checked with the server module just loaded and the URL
\* effect of the viewer left out.
Init ==
    /\ \E t \in UrlTimes : Mount(t)
    /\ ModuleLoad(NoUrl)
    /\ ViewerMount(-1, FALSE)

\* Mounted from a URL whose t lies past the end of the episode.
InitPastEnd ==
    /\ \E t \in PastEndTimes : Mount(t)
    /\ ModuleLoad(NoUrl)
    /\ ViewerMount(-1, FALSE)


\* ------------------------------------------------------- readiness barrier

\* video.readyState >= 3 (HAVE_FUTURE_DATA) counts as already ready
HaveFutureData == 3
\* readyState once loadeddata has fired, and once canplaythrough has
HaveCurrentData == 2
HaveEnoughData == 4

Bump(n) == Min(n + 1, CallCap)

\* triggerReady without its latch: hasCalledReadyRef is never set
TriggerReadyNoLatch(s) ==
    [s EXCEPT !.videosReady = TRUE,
              !.onVideosReadyCalls = Bump(@),
              !.isPlaying = TRUE,
              !.setIsPlayingCalls = Bump(@)]

TriggerReady(s) ==
    IF s.hasCalledReadyRef THEN s
    ELSE [s EXCEPT !.hasCalledReadyRef = TRUE,
                   !.videosReady = TRUE,
                   !.onVideosReadyCalls = Bump(@),
                   !.isPlaying = TRUE,
                   !.setIsPlayingCalls = Bump(@)]

CheckReady(s, videoIndex) ==
    IF s.hasCalledReadyRef THEN s
    ELSE LET s1 == [s EXCEPT !.readySetRef = @ \cup {videoIndex}]
         IN  IF Cardinality(s1.readySetRef) >= Len(videosInfo)
             THEN TriggerReady(s1)
             ELSE s1

\* the segment seek that precedes checkReady, at setup and in markReady
SeekSegmentStart(v, info) ==
    IF info.isSegmented THEN SetVideoTime(v, SegStart(info)) ELSE v

\* (variant) markReady without its hasMarkedReady test
MarkReadyNoGuard(s, i) ==
    IF s.videoRefs[i].readyHandler = "none" THEN s
    ELSE CheckReady(
            [s EXCEPT !.videoRefs[i] =
                [SeekSegmentStart(@, videosInfo[i]) EXCEPT
                    !.readyHandler = "marked"]],
            i)

\* markReady of the element mounted at index i
MarkReady(s, i) ==
    IF s.videoRefs[i].readyHandler # "armed" THEN s
    ELSE CheckReady(
            [s EXCEPT !.videoRefs[i] =
                [SeekSegmentStart(@, videosInfo[i]) EXCEPT
                    !.readyHandler = "marked"]],
            i)

\* one turn of the forEach of the setup timer
SetupOne(s, i) ==
    LET v == s.videoRefs[i]
    IN  IF ~v.mounted THEN s
        ELSE IF v.readyState >= HaveFutureData
        THEN CheckReady(
                [s EXCEPT !.videoRefs[i] = SeekSegmentStart(v, videosInfo[i])],
                i)
        ELSE [s EXCEPT !.videoRefs[i].readyHandler = "armed"]

RECURSIVE SetupFrom(_, _)
SetupFrom(s, i) ==
    IF i > Len(videosInfo) THEN s ELSE SetupFrom(SetupOne(s, i), i + 1)

\* setTimeout(..., 50), of the readiness effect that ran last: "pending",
\* "fired", or "cancelled" by the cleanup.  The effects of a commit run
\* before a timer that is due later.
SetupTimer ==
    /\ setupTimer = "pending"
    /\ rendered.videosInfo = videosInfo
    /\ setupTimer' = "fired"
    /\ Commit(SetupFrom(St, 1))
    /\ UNCHANGED <<fallbackTimer, inputs>>

\* (variant) a fallback that forces the transition with nothing ready
FallbackBodyAlways(s) ==
    IF ~s.hasCalledReadyRef THEN TriggerReady(s) ELSE s

\* the body of the fallback timer
FallbackBody(s) ==
    IF ~s.hasCalledReadyRef /\ Cardinality(s.readySetRef) > 0
    THEN TriggerReady(s)
    ELSE s

\* setTimeout(..., 5000): set after the setup timer, so it fires after it.
\* Once hasCalledReadyRef is set its body does nothing; that firing is left
\* out as a step that changes nothing.
FallbackTimer ==
    /\ setupTimer = "fired"
    /\ fallbackTimer = "pending"
    /\ rendered.videosInfo = videosInfo
    /\ ~hasCalledReadyRef
    /\ fallbackTimer' = "fired"
    /\ Commit(FallbackBody(St))
    /\ UNCHANGED <<setupTimer, inputs>>

\* the element at i gets its first frame: loadeddata fires
LoadedData(i) ==
    /\ videoRefs[i].mounted
    /\ videoRefs[i].readyState = 0
    /\ Commit(MarkReady(
                [St EXCEPT
                    !.videoRefs[i].readyState = HaveCurrentData],
                i))
    /\ UNCHANGED <<setupTimer, fallbackTimer, inputs>>

\* the element at i has buffered enough: canplaythrough fires
CanPlayThrough(i) ==
    /\ videoRefs[i].mounted
    /\ videoRefs[i].readyState = HaveCurrentData
    /\ Commit(MarkReady(
                [St EXCEPT
                    !.videoRefs[i].readyState = HaveEnoughData],
                i))
    /\ UNCHANGED <<setupTimer, fallbackTimer, inputs>>

\* an element unmounted by Hide still holds markReady and may still load
DetachedReady(i) ==
    /\ i \in detachedReady
    /\ Commit(CheckReady(
                [St EXCEPT !.detachedReady = @ \ {i}],
                i))
    /\ UNCHANGED <<setupTimer, fallbackTimer, inputs>>


\* ------------------------------------------------------------------ effects

\* the boundary effect: its cleanup drops the old listeners, then every
\* mounted element gets one that remembers this render's firstVisibleIdx
BoundaryEffect(s) ==
    [s EXCEPT
        !.videoRefs =
            [i \in Indices |->
                [s.videoRefs[i] EXCEPT
                    !.boundary = s.videosReady /\ s.videoRefs[i].mounted]],
        !.boundaryLeader =
            IF s.videosReady THEN FirstVisibleIdx(s.hiddenVideos) ELSE NoIdx]

\* the segmented videos play() is called on before their segment start
EarlyPlays(s) ==
    {i \in Indices :
        /\ s.videoRefs[i].mounted /\ i \notin s.hiddenVideos
        /\ s.isPlaying /\ s.videosReady
        /\ videosInfo[i].isSegmented
        /\ s.videoRefs[i].currentTime < SegStart(videosInfo[i])}

\* (variant) a play/pause effect that plays without waiting for videosReady
PlayPauseEffectUngated(s) ==
    [s EXCEPT
        !.videoRefs =
            [i \in Indices |->
                LET v == s.videoRefs[i]
                IN  IF v.mounted /\ i \notin s.hiddenVideos
                    THEN IF s.isPlaying THEN PlayVideo(v) ELSE PauseVideo(v)
                    ELSE v]]

\* the play/pause effect
PlayPauseEffect(s) ==
    [s EXCEPT
        !.ev.early = EarlyPlays(s),
        !.videoRefs =
            [i \in Indices |->
                LET v == s.videoRefs[i]
                IN  IF v.mounted /\ i \notin s.hiddenVideos
                    THEN IF s.isPlaying
                         THEN IF s.videosReady THEN PlayVideo(v) ELSE v
                         ELSE PauseVideo(v)
                    ELSE v]]

\* targetTime of the sync effect
TargetTime(info, t) == IF info.isSegmented THEN SegStart(info) + t ELSE t

\* (variant) the main video's threshold for every video
SyncThresholdMainOnly(isMainVideo) == LeaderThreshold

\* threshold of the sync effect
SyncThreshold(isMainVideo) ==
    IF isMainVideo THEN LeaderThreshold ELSE FollowerThreshold

\* (variant) the seek condition without the external jump
NeedsSeekNoJump(v, targetTime, isMainVideo, isExternalJump) ==
    Abs(v.currentTime - targetTime) > SyncThreshold(isMainVideo)

\* the condition under which the sync effect seeks a video
NeedsSeek(v, targetTime, isMainVideo, isExternalJump) ==
    \/ Abs(v.currentTime - targetTime) > SyncThreshold(isMainVideo)
    \/ (isExternalJump /\ isMainVideo)

\* (variant) a sync effect that goes through every index
SyncedVideosAll(s) == Indices

\* the videos the sync effect goes through
SyncedVideos(s) ==
    {i \in Indices : s.videoRefs[i].mounted /\ i \notin s.hiddenVideos}

\* the sync effect
SyncEffect(s) ==
    IF ~s.videosReady THEN s
    ELSE
    LET isExternalJump ==
            Abs(s.currentTime - s.prevCurrentTimeRef) > JumpThreshold
        main == FirstVisibleIdx(s.hiddenVideos)
        seeks ==
            {i \in SyncedVideos(s) :
                NeedsSeek(s.videoRefs[i],
                          TargetTime(videosInfo[i], s.currentTime),
                          i = main, isExternalJump)}
    IN  [s EXCEPT
            !.prevCurrentTimeRef = s.currentTime,
            !.videoRefs =
                [i \in Indices |->
                    IF i \in seeks
                    THEN LET w == SetVideoTime(
                                    s.videoRefs[i],
                                    TargetTime(videosInfo[i], s.currentTime))
                         IN  [w EXCEPT !.timeupdate =
                                        IF @ = "none" THEN @ ELSE "sync"]
                    ELSE s.videoRefs[i]],
            !.ev.sync = TRUE,
            !.ev.main = main,
            !.ev.jump = isExternalJump,
            !.ev.mainAt =
                IF main \in SyncedVideos(s)
                THEN s.videoRefs[main].currentTime ELSE 0,
            !.ev.seeks = seeks]

\* A render with hiddenVideos changed from oldHidden, and the effects whose
\* dependencies differ from the last render, in the order they are declared.
RunEffects(s, oldHidden) ==
    LET r == s.rendered
        readyCh == r.videosReady # s.videosReady
        infoCh == r.videosInfo # videosInfo
        hiddenCh == oldHidden # s.hiddenVideos
        firstCh == FirstVisibleIdx(oldHidden) # FirstVisibleIdx(s.hiddenVideos)
        s1 == IF readyCh \/ infoCh \/ firstCh THEN BoundaryEffect(s) ELSE s
        s2 == IF r.isPlaying # s.isPlaying \/ readyCh \/ hiddenCh \/ infoCh
              THEN PlayPauseEffect(s1) ELSE s1
        s3 == IF \/ r.currentTime # s.currentTime \/ infoCh
                 \/ readyCh \/ hiddenCh \/ firstCh
              THEN SyncEffect(s2) ELSE s2
    IN  [s3 EXCEPT
            !.rendered = [currentTime |-> s.currentTime,
                          isPlaying |-> s.isPlaying,
                          videosReady |-> s.videosReady,
                          videosInfo |-> videosInfo]]

\* the stream list was replaced and the effects have not run with it yet
PropsPending == rendered.videosInfo # videosInfo

\* state was set by a timer or a media event and is not rendered yet
Dirty ==
    rendered # [currentTime |-> currentTime, isPlaying |-> isPlaying,
                videosReady |-> videosReady, videosInfo |-> videosInfo]

\* A pending render, a queued play event and the next animation frame come
\* within milliseconds: before the user acts again, before 50 ms of wall time
\* pass and before a playing stream has moved by a step.
Settled ==
    /\ ~Dirty
    /\ ~isSyncingRef
    /\ \A i \in Indices : ~videoRefs[i].play /\ videoRefs[i].timeupdate # "sync"

\* the user acts on what is on screen, after the setup timer (50 ms)
CanAct == Settled /\ setupTimer = "fired" /\ inputs < MaxInputs

\* the render of state set by a timer or a media event, and its effects
Flush ==
    /\ Dirty
    /\ ~PropsPending
    /\ Commit(RunEffects(St, hiddenVideos))
    /\ UNCHANGED <<setupTimer, fallbackTimer, inputs>>

\* ------------------------------------------------- a new stream list

\* Stream lists a mounted player is given in place of its first one: another
\* number of streams, under other filenames.
NewConfigs == { <<PlainInfo>>, <<SegInfo>> }

\* The parent renders the player with another videosInfo: the commit unmounts
\* the elements of the old list (keyed by filename) and mounts new ones.  A
\* markReady listener stays on an unmounted element that had not fired it,
\* with the index and the checkReady of the old list.  The filenames in
\* hiddenVideos name no stream of the new list.
ReplaceStreams(newInfo) ==
    /\ videosInfo \in VideoConfigs
    /\ Len(newInfo) # Len(videosInfo)
    /\ videosInfo' = newInfo
    /\ videoRefs' = [i \in 1..Len(newInfo) |-> NewVideo]
    /\ staleReady' =
          {i \in Indices :
              videoRefs[i].mounted /\ videoRefs[i].readyHandler = "armed"}
          \cup detachedReady
    /\ staleLen' = Len(videosInfo)
    /\ detachedReady' = {}
    /\ hiddenVideos' = {}
    /\ ev' = [NoEv EXCEPT !.input = "replace"]
    /\ UNCHANGED <<readySetRef, hasCalledReadyRef, isSyncingRef,
                   lastTimeUpdateRef, prevCurrentTimeRef, currentTime,
                   isPlaying, videosReady, rendered, boundaryLeader,
                   setupTimer, fallbackTimer, onVideosReadyCalls,
                   setIsPlayingCalls, sinceFeedback, inputs,
                   serverVars, viewerVars>>

\* the readiness effect run again for another videosInfo.length: nothing
\* once videosReady is set, else the refs are reset
ReadinessEffect(s) ==
    IF s.videosReady THEN s
    ELSE [s EXCEPT !.readySetRef = {}, !.hasCalledReadyRef = FALSE]

\* The effects after that commit.  The cleanup of the readiness effect
\* clears its two timers; the effect sets new ones unless it returned at
\* its videosReady test; the other effects depend on videosInfo and run too.
ReplaceEffects ==
    /\ PropsPending
    /\ Commit(RunEffects(ReadinessEffect(St), hiddenVideos))
    /\ setupTimer' = IF videosReady THEN "cancelled" ELSE "pending"
    /\ fallbackTimer' = IF videosReady THEN "cancelled" ELSE "pending"
    /\ UNCHANGED inputs

\* checkReady in the closure of a listener of the old list: the refs are
\* those of the component, videosInfo.length is the old one
StaleCheckReady(s, videoIndex) ==
    IF s.hasCalledReadyRef THEN s
    ELSE LET s1 == [s EXCEPT !.readySetRef = @ \cup {videoIndex}]
         IN  IF Cardinality(s1.readySetRef) >= s.staleLen
             THEN TriggerReady(s1)
             ELSE s1

\* an unmounted element of the old list loads and fires its markReady
StaleReady(i) ==
    /\ i \in staleReady
    /\ Commit(StaleCheckReady(
                [St EXCEPT !.staleReady = @ \ {i}, !.ev.stale = TRUE],
                i))
    /\ UNCHANGED <<setupTimer, fallbackTimer, inputs>>

\* ------------------------------------------------------------- user input

\* (variant) a Hide Video button that is never disabled
HideDisabledNever == FALSE

\* the disabled attribute of the Hide Video buttons
HideDisabled == Cardinality(Indices \ hiddenVideos) = 1

\* the Hide Video button of stream i
Hide(i) ==
    /\ CanAct
    /\ i \in Indices \ hiddenVideos
    /\ ~HideDisabled
    /\ Commit(RunEffects(
            [St EXCEPT
                !.ev.input = "hide",
                !.hiddenVideos = @ \cup {i},
                !.videoRefs[i] = NullVideo,
                !.detachedReady =
                    IF videoRefs[i].readyHandler = "armed"
                    THEN @ \cup {i} ELSE @],
            hiddenVideos))
    /\ inputs' = inputs + 1
    /\ UNCHANGED <<setupTimer, fallbackTimer>>

\* the restore button of hidden stream i: a new element is mounted
Show(i) ==
    /\ CanAct
    /\ i \in hiddenVideos
    /\ Commit(RunEffects(
            [St EXCEPT
                !.ev.input = "show",
                !.hiddenVideos = @ \ {i},
                !.videoRefs[i] = NewVideo],
            hiddenVideos))
    /\ inputs' = inputs + 1
    /\ UNCHANGED <<setupTimer, fallbackTimer>>

\* the space key: setIsPlaying(prev => !prev)
TogglePlay ==
    /\ CanAct
    /\ Commit(RunEffects(
            [St EXCEPT !.ev.input = "key", !.isPlaying = ~@],
            hiddenVideos))
    /\ inputs' = inputs + 1
    /\ UNCHANGED <<setupTimer, fallbackTimer>>

\* the clock's setter
SetCurrentTime(s, t) == [s EXCEPT !.currentTime = t]

\* a time seek by a control outside the player (scrub bar, reset)
ExternalSeek(t) ==
    /\ CanAct
    /\ t # currentTime
    /\ Commit(RunEffects(
            [SetCurrentTime(St, t) EXCEPT !.ev.input = "seek"],
            hiddenVideos))
    /\ inputs' = inputs + 1
    /\ UNCHANGED <<setupTimer, fallbackTimer>>


\* ----------------------------------------------------------- stream events

\* globalTime of handleTimeUpdate
GlobalTime(v, info) ==
    IF info.isSegmented THEN v.currentTime - SegStart(info) ELSE v.currentTime

\* (variant) no throttle
ThrottledNever(s) == FALSE

\* the throttle test: now - lastTimeUpdateRef.current < 100
Throttled(s) == s.lastTimeUpdateRef < ThrottleTicks

\* (variant) handleTimeUpdate without the isSyncingRef test
HandleTimeUpdateNoFlag(s, i) ==
    IF s.lastTimeUpdateRef < ThrottleTicks
    THEN [s EXCEPT !.ev.feedback = "throttled"]
    ELSE [SetCurrentTime(s, GlobalTime(s.videoRefs[i], videosInfo[i])) EXCEPT
            !.lastTimeUpdateRef = 0,
            !.isSyncingRef = TRUE,
            !.sinceFeedback = 0,
            !.ev.feedback = "applied",
            !.ev.writer = i]

\* handleTimeUpdate, the onTimeUpdate of the first visible video
HandleTimeUpdate(s, i) ==
    IF s.isSyncingRef THEN [s EXCEPT !.ev.feedback = "syncing"]
    ELSE IF Throttled(s) THEN [s EXCEPT !.ev.feedback = "throttled"]
    ELSE [SetCurrentTime(s, GlobalTime(s.videoRefs[i], videosInfo[i])) EXCEPT
            !.lastTimeUpdateRef = 0,
            !.isSyncingRef = TRUE,
            !.sinceFeedback = 0,
            !.ev.feedback = "applied",
            !.ev.writer = i]

\* (variant) every element carries onTimeUpdate
IsFirstVisibleAny(s, i) == TRUE

\* the element carrying onTimeUpdate in the last render
IsFirstVisible(s, i) == i = FirstVisibleIdx(s.hiddenVideos)

\* the timeupdate listener the boundary effect gives a segmented video
BoundaryTimeUpdate(s, i) ==
    LET v == s.videoRefs[i]
        info == videosInfo[i]
    IN  IF v.currentTime >= SegEnd(info) - SegmentEps
        THEN LET s1 == [s EXCEPT
                          !.videoRefs[i] = SetVideoTime(v, SegStart(info))]
             IN  IF i = s.boundaryLeader
                 THEN [SetCurrentTime(s1, 0) EXCEPT !.ev.writer = i]
                 ELSE s1
        ELSE s

\* the ended listener the boundary effect gives a video without segment
HandleEnded(s, i) ==
    LET s1 == [s EXCEPT !.videoRefs[i] = SetVideoTime(s.videoRefs[i], 0)]
    IN  IF i = s.boundaryLeader
        THEN [SetCurrentTime(s1, 0) EXCEPT !.ev.writer = i]
        ELSE s1

\* the element is playing: not paused, with data to play
Playing(v) == ~v.paused /\ v.readyState >= HaveFutureData

\* A timeupdate of the element at i is dispatched, one that a seek queued or
\* one of those a playing element fires all along: first to the
\* listener React attached when the element was created, then to the one the
\* boundary effect added.
TimeUpdate(i) ==
    /\ videoRefs[i].mounted
    /\ ~videoRefs[i].play
    /\ videoRefs[i].timeupdate # "none" \/ Playing(videoRefs[i])
    /\ LET s0 == [St EXCEPT
                    !.videoRefs[i].timeupdate = "none",
                    !.ev.event = i,
                    !.ev.afterPush = videoRefs[i].timeupdate = "sync"]
           s1 == IF IsFirstVisible(s0, i) THEN HandleTimeUpdate(s0, i) ELSE s0
           s2 == IF s1.videoRefs[i].boundary /\ videosInfo[i].isSegmented
                 THEN BoundaryTimeUpdate(s1, i) ELSE s1
       IN  Commit(s2)
    /\ UNCHANGED <<setupTimer, fallbackTimer, inputs>>

\* a playing element at the end of its file fires ended
Ended(i) ==
    /\ videoRefs[i].mounted
    /\ Playing(videoRefs[i])
    /\ ~videoRefs[i].play
    /\ videoRefs[i].currentTime >= videosInfo[i].duration
    /\ LET s0 == [St EXCEPT !.ev.event = i, !.ev.ended = TRUE]
       IN  Commit(IF videoRefs[i].boundary /\ ~videosInfo[i].isSegmented
                  THEN HandleEnded(s0, i) ELSE s0)
    /\ UNCHANGED <<setupTimer, fallbackTimer, inputs>>

\* the position of a playing element moves on
Advance(i, d) ==
    /\ Settled
    /\ videoRefs[i].mounted
    /\ Playing(videoRefs[i])
    /\ videoRefs[i].currentTime < videosInfo[i].duration
    /\ Commit([St EXCEPT
                !.videoRefs[i].currentTime =
                    Min(@ + d, videosInfo[i].duration)])
    /\ UNCHANGED <<setupTimer, fallbackTimer, inputs>>

\* handlePlay, the onPlay of every video
HandlePlay(v, info) ==
    PlayVideo(
        IF /\ info.isSegmented
           /\ (v.currentTime < SegStart(info) \/ v.currentTime >= SegEnd(info))
        THEN SetVideoTime(v, SegStart(info))
        ELSE v)

\* a queued play event of the element at i is dispatched
PlayEvent(i) ==
    /\ videoRefs[i].mounted
    /\ videoRefs[i].play
    /\ Commit([St EXCEPT
                !.videoRefs[i] =
                    HandlePlay([@ EXCEPT !.play = FALSE], videosInfo[i])])
    /\ UNCHANGED <<setupTimer, fallbackTimer, inputs>>

\* The browser rejects the play() of the element at i (the promise of line
\* 179): the element stays paused and fires no play event; the catch logs
\* and does nothing else.
PlayRejected(i) ==
    /\ videoRefs[i].mounted
    /\ videoRefs[i].play
    /\ Commit([St EXCEPT
                !.videoRefs[i] =
                    [@ EXCEPT !.paused = TRUE, !.play = FALSE,
                              !.rejected = TRUE]])
    /\ UNCHANGED <<setupTimer, fallbackTimer, inputs>>

\* ---------------------------------------------------------------- the loop

\* 50 ms of wall time pass; the animation frame may be late (a busy or
\* hidden page), a render or a play event is not
Tick ==
    /\ ~Dirty
    /\ \A i \in Indices : ~videoRefs[i].play
    /\ lastTimeUpdateRef < ThrottleTicks \/ sinceFeedback < ThrottleTicks
    /\ Commit([St EXCEPT
                !.lastTimeUpdateRef = Min(@ + 1, ThrottleTicks),
                !.sinceFeedback = Min(@ + 1, ThrottleTicks)])
    /\ UNCHANGED <<setupTimer, fallbackTimer, inputs>>

\* a seek queued a timeupdate in the running frame
SeekThisFrame == \E i \in Indices : videoRefs[i].timeupdate = "sync"

\* (variant) an animation frame whose callback leaves isSyncingRef set
AnimationFrameNoClear ==
    /\ isSyncingRef \/ SeekThisFrame
    /\ Commit([St EXCEPT
                !.videoRefs =
                    [i \in Indices |->
                        [videoRefs[i] EXCEPT
                            !.timeupdate = IF @ = "sync" THEN "seek" ELSE @]]])
    /\ UNCHANGED <<setupTimer, fallbackTimer, inputs>>

\* the next animation frame: the callback of requestAnimationFrame runs
AnimationFrame ==
    /\ isSyncingRef \/ SeekThisFrame
    /\ Commit([St EXCEPT
                !.isSyncingRef = FALSE,
                !.videoRefs =
                    [i \in Indices |->
                        [videoRefs[i] EXCEPT
                            !.timeupdate = IF @ = "sync" THEN "seek" ELSE @]]])
    /\ UNCHANGED <<setupTimer, fallbackTimer, inputs>>

Next ==
    \/ SetupTimer
    \/ FallbackTimer
    \/ \E i \in Indices : LoadedData(i)
    \/ \E i \in Indices : CanPlayThrough(i)
    \/ \E i \in Indices : DetachedReady(i)
    \/ Flush
    \/ \E i \in Indices : Hide(i)
    \/ \E i \in Indices : Show(i)
    \/ TogglePlay
    \/ \E t \in SeekTargets : ExternalSeek(t)
    \/ \E i \in Indices : TimeUpdate(i)
    \/ \E i \in Indices : Ended(i)
    \/ \E i \in Indices, d \in AdvanceSteps : Advance(i, d)
    \/ \E i \in Indices : PlayEvent(i)
    \/ Tick
    \/ AnimationFrame

Spec == Init /\ [][Next]_vars

\* The same program opened with a URL time past the end of the episode.
PastEndSpec == InitPastEnd /\ [][Next]_vars


\* The timers, the render and the animation frame are tasks the event loop
\* runs once they are due; streams need not load and the user need not act.
FairSpec ==
    /\ Spec
    /\ WF_vars(SetupTimer)
    /\ WF_vars(FallbackTimer)
    /\ WF_vars(Flush)
    /\ WF_vars(AnimationFrame)

\* The player on a page whose animation frames keep running: a callback
\* given to requestAnimationFrame is run.
FrameSpec == Spec /\ WF_vars(AnimationFrame)

\* The player given a new stream list while its streams load: the timers,
\* the ready signals of both lists, the renders and the queued play events.
NextReplace ==
    \/ SetupTimer
    \/ FallbackTimer
    \/ \E i \in Indices : LoadedData(i)
    \/ \E i \in Indices : CanPlayThrough(i)
    \/ Flush
    \/ \E newInfo \in NewConfigs : ReplaceStreams(newInfo)
    \/ ReplaceEffects
    \/ \E i \in staleReady : StaleReady(i)
    \/ \E i \in Indices : PlayEvent(i)

ReplaceSpec == Init /\ [][NextReplace]_vars

\* The player left alone (no user input) with a browser that may reject a
\* play request.
NextReject ==
    \/ SetupTimer
    \/ FallbackTimer
    \/ \E i \in Indices : LoadedData(i)
    \/ \E i \in Indices : CanPlayThrough(i)
    \/ Flush
    \/ \E i \in Indices : TimeUpdate(i)
    \/ \E i \in Indices : Ended(i)
    \/ \E i \in Indices, d \in AdvanceSteps : Advance(i, d)
    \/ \E i \in Indices : PlayEvent(i)
    \/ \E i \in Indices : PlayRejected(i)
    \/ Tick
    \/ AnimationFrame

RejectSpec == Init /\ [][NextReject]_vars

\* ------------------------------------------------------------------ claims

\* the streams on screen
Visible == Indices \ hiddenVideos

\* the leader of the specification: the lowest index that is not hidden
LowestVisible ==
    IF Visible = {} THEN NoIdx
    ELSE CHOOSE i \in Visible : \A j \in Visible : i <= j

\* where the clock wants stream i to be
MappedTarget(i) ==
    IF videosInfo[i].isSegmented
    THEN videosInfo[i].segmentStart + currentTime
    ELSE currentTime

\* C1: in one mount the readiness transition happens at most once:
\* onVideosReady is called at most once, the barrier calls setIsPlaying(true)
\* at most once, and always both in the same step.
C1_ReadyAtMostOnce ==
    /\ onVideosReadyCalls <= 1
    /\ setIsPlayingCalls = onVideosReadyCalls
    /\ (onVideosReadyCalls = 1) = hasCalledReadyRef

\* C1 witness: the fallback forced the transition and a stream reported ready
\* after it; still one call.
C1_Witness ==
    /\ onVideosReadyCalls = 1
    /\ fallbackTimer = "fired"
    /\ \E i \in Indices :
          i \notin readySetRef /\ videoRefs[i].readyHandler = "marked"

\* C2: a timeupdate (wraparound included) or ended event of a stream that is
\* not the current leader never writes the clock; the clock changes only in a
\* step of the leader's event or of an outside control.
C2_OnlyLeaderWrites ==
    /\ [](ev.writer # NoIdx => ev.writer = LowestVisible)
    /\ [](ev.event # LowestVisible => ev.writer = NoIdx /\ ev.feedback = "none")
    /\ [][currentTime' # currentTime =>
            ev'.input = "seek" \/ (ev'.event = LowestVisible' /\ ev'.writer = ev'.event)]_vars

\* C2 witness: the event of a visible non-leader was dispatched and wrapped
\* that stream (its handler seeked it), the clock not at 0.
C2_Witness ==
    /\ ev.event \in Visible \ {LowestVisible}
    /\ videoRefs[ev.event].timeupdate = "seek"
    /\ currentTime # 0

\* C3: after any hide and show the leader is the lowest index that is not
\* hidden, and it is the one the boundary and ended handlers remember, the
\* one whose timeupdate feeds the clock, and the one the sync effect gives
\* the main deadband.
C3_LeaderIsLowestVisible ==
    /\ boundaryLeader \in {NoIdx, LowestVisible}
    /\ (\E i \in Indices : videoRefs[i].boundary) => boundaryLeader = LowestVisible
    /\ ev.sync => ev.main = LowestVisible
    /\ ev.feedback # "none" => ev.event = LowestVisible
    /\ ev.writer # NoIdx => ev.writer = LowestVisible

\* C3 witness: with the handlers attached, stream 1 has just been hidden and
\* the handlers and the sync effect took stream 2 as leader in that step.
C3_Witness ==
    /\ ev.input = "hide"
    /\ hiddenVideos = {1}
    /\ boundaryLeader = 2
    /\ ev.sync
    /\ ev.main = 2

\* C4: once the barrier has fired, when the sync effect has run every visible
\* non-leader is within 0.5 s of its mapped target, and the timeupdate its
\* seek queued, once dispatched, does not write the clock.
C4_FollowersConverge ==
    /\ [](ev.sync =>
            \A i \in Visible \ {LowestVisible} :
                Abs(videoRefs[i].currentTime - MappedTarget(i)) <= FollowerThreshold)
    /\ [][\A i \in Visible \ {LowestVisible} :
            (videoRefs[i].timeupdate # "none" /\ ev'.event = i)
                => (currentTime' = currentTime /\ ev'.writer = NoIdx)]_vars
    /\ [][(ev'.sync /\ ev'.input # "seek") => currentTime' = currentTime]_vars

\* C4 witness: the sync effect seeked a visible non-leader.
C4_Witness ==
    /\ ev.sync
    /\ \E i \in Visible \ {LowestVisible} : i \in ev.seeks

\* C5 as stated: while isSyncingRef is set no clock-to-streams propagation
\* (a seek of streams by the sync effect) runs, and no leader update is applied
\* in a step that runs one.
C5_Original ==
    /\ (ev.sync /\ ev.seeks # {}) => ~isSyncingRef
    /\ ev.sync => ev.feedback # "applied"

\* C5 amended: while isSyncingRef is set no further leader time update is
\* applied to the clock, and no leader update is applied in the step that
\* runs the sync effect; the sync effect itself is not held back by the flag.
C5_FlagBlocksFeedback ==
    /\ [][isSyncingRef => ev'.feedback # "applied"]_vars
    /\ [](ev.sync => ev.feedback # "applied")

\* C5 witness: a leader timeupdate arrived with the flag set, 100 ms after
\* the last applied one, and was dropped because of the flag.
C5_Witness ==
    /\ ev.feedback = "syncing"
    /\ isSyncingRef
    /\ lastTimeUpdateRef >= ThrottleTicks

\* C6 as stated: the timeupdate that a seek of the sync effect queued on the
\* leader, dispatched before the next animation frame, is not applied to the
\* clock.
C6_SeekNotReported ==
    ev.afterPush => ev.feedback # "applied"

\* C7: a leader time update is applied only when 100 ms have passed since
\* the last applied one.
C7_FeedbackSpacing ==
    [][ev'.feedback = "applied" => sinceFeedback >= ThrottleTicks]_vars

\* C7 witness: a leader time update came less than 100 ms after an applied
\* one and was dropped by the throttle.
C7_Witness ==
    /\ ev.feedback = "throttled"
    /\ sinceFeedback < ThrottleTicks

\* C8: when the fallback timer fires before the barrier has: with a stream
\* in the ready set the transition is forced; with none nothing changes.
C8_Fallback ==
    [][(fallbackTimer = "pending" /\ fallbackTimer' = "fired" /\ ~hasCalledReadyRef) =>
        IF readySetRef # {}
        THEN /\ hasCalledReadyRef' /\ videosReady' /\ isPlaying'
             /\ onVideosReadyCalls' = onVideosReadyCalls + 1
             /\ setIsPlayingCalls' = setIsPlayingCalls + 1
        ELSE UNCHANGED <<hasCalledReadyRef, videosReady, isPlaying,
                         onVideosReadyCalls, setIsPlayingCalls>>]_vars

\* C8 witness: the fallback forced the transition with a stream missing.
C8_Witness ==
    /\ fallbackTimer = "fired"
    /\ hasCalledReadyRef
    /\ readySetRef # {}
    /\ Cardinality(readySetRef) < Len(videosInfo)

\* C9 as stated: once a stream has reported ready the barrier fires in the
\* end, whether or not the others ever do.
C9_ReadyLeadsToFired ==
    (readySetRef # {}) ~> hasCalledReadyRef

\* C10 as stated: the barrier's all-ready test holds exactly when every
\* visible stream has reported ready.
C10_AllReadyIffVisibleReady ==
    ~hasCalledReadyRef =>
        ((Cardinality(readySetRef) >= Len(videosInfo))
            <=> (\A i \in Visible : i \in readySetRef))

\* C11: a second ready signal of a stream (canplaythrough after loadeddata)
\* changes nothing but the element's readyState: the ready set, the barrier,
\* the play state, the clock and every stream's position stay as they were;
\* and the barrier fires only in a step that adds a stream to the ready set
\* or in the fallback's.
C11_ReadyIdempotent ==
    /\ [][\A i \in Indices :
            (/\ videoRefs[i].mounted
             /\ videoRefs[i].readyHandler = "marked"
             /\ videoRefs'[i].mounted
             /\ videoRefs'[i].readyState # videoRefs[i].readyState)
            => /\ UNCHANGED <<readySetRef, hasCalledReadyRef, videosReady,
                              isPlaying, currentTime, onVideosReadyCalls,
                              setIsPlayingCalls>>
               /\ videoRefs' =
                    [videoRefs EXCEPT ![i].readyState = videoRefs'[i].readyState]]_vars
    /\ [][(hasCalledReadyRef' /\ ~hasCalledReadyRef)
            => (readySetRef' # readySetRef \/ fallbackTimer' # fallbackTimer)]_vars

\* C11 witness: a segmented stream has given both signals, away from its
\* segment start by now, and was counted once.
C11_Witness ==
    \E i \in Indices :
        /\ videosInfo[i].isSegmented
        /\ videoRefs[i].readyHandler = "marked"
        /\ videoRefs[i].readyState = HaveEnoughData
        /\ videoRefs[i].currentTime # SegStart(videosInfo[i])
        /\ i \in readySetRef

C13_Wraparound ==
    [][\A i \in Indices :
        (/\ ev'.event = i
         /\ videosInfo[i].isSegmented
         /\ i \in Visible
         /\ rendered.videosReady
         /\ videoRefs[i].currentTime >= SegEnd(videosInfo[i]) - SegmentEps
         /\ videoRefs[i].currentTime < videosInfo[i].duration)
        => /\ videoRefs'[i].currentTime = SegStart(videosInfo[i])
           /\ IF i = LowestVisible
              THEN currentTime' = 0
              ELSE currentTime' = currentTime]_vars

\* C14 as stated: an ended event of a stream without segment puts that
\* stream at 0; the clock ends at 0 when the stream is the leader and is
\* unchanged when it is not.
C14_EndedResets ==
    [][\A i \in Indices :
        (ev'.ended /\ ev'.event = i /\ ~videosInfo[i].isSegmented)
        => /\ videoRefs'[i].currentTime = 0
           /\ IF i = LowestVisible
              THEN currentTime' = 0
              ELSE currentTime' = currentTime]_vars

\* C15 as stated: the first ready signal of a stream that comes after the
\* barrier has fired changes neither the clock, nor the barrier's state, nor
\* the position of that stream.
C15_LateReadyNoEffect ==
    [][\A i \in Indices :
        (/\ hasCalledReadyRef
         /\ videoRefs[i].readyHandler = "armed"
         /\ videoRefs'[i].readyHandler = "marked")
        => /\ videoRefs'[i].currentTime = videoRefs[i].currentTime
           /\ UNCHANGED <<currentTime, hasCalledReadyRef, videosReady,
                          readySetRef, isPlaying>>]_vars

\* C16 as stated: in the render of the readiness transition, all streams
\* ready or the fallback having forced it, no visible segmented stream gets
\* its play request while it has not been seeked to its segment start.
C16_SeekBeforePlay ==
    [][(~rendered.videosReady /\ rendered'.videosReady) => ev'.early = {}]_vars

\* C17 as stated: the clock stays within the episode, 0 <= currentTime <=
\* duration, in every reachable state.
C17_ClockInRange ==
    0 <= currentTime /\ currentTime <= EpisodeLen

\* the stream at i of the list shown has reported ready
Reported(i) ==
    \/ videoRefs[i].readyHandler = "marked"
    \/ (videoRefs[i].readyHandler = "none"
            /\ videoRefs[i].readyState >= HaveFutureData)

\* C18 as stated: once the stream list has been replaced and the readiness
\* effect has run again, no ready listener of the old list changes the ready
\* set or the barrier, the ready set holds streams of the new list that
\* reported ready only, and the barrier has fired only if every stream of
\* the new list has reported ready or the new fallback timer has fired.
C18_NoOverlap ==
    /\ [][(ev'.stale /\ ~PropsPending)
            => UNCHANGED <<readySetRef, hasCalledReadyRef, videosReady>>]_vars
    /\ []((videosInfo \in NewConfigs /\ ~PropsPending) =>
            /\ \A i \in readySetRef : i \in Indices /\ Reported(i)
            /\ hasCalledReadyRef =>
                  \/ \A i \in Indices : Reported(i)
                  \/ fallbackTimer = "fired")

\* C19 as stated: a rejected play request changes neither the clock, nor
\* isPlaying, nor another stream; and with isPlaying true and the barrier
\* fired, the next run of the sync effect requests play again on a visible
\* stream whose request was rejected.
C19_RejectedPlayRetried ==
    /\ [][\A i \in Indices :
            (videoRefs[i].play /\ videoRefs'[i].rejected)
            => /\ UNCHANGED <<currentTime, isPlaying, videosReady>>
               /\ \A j \in Indices \ {i} : videoRefs'[j] = videoRefs[j]]_vars
    /\ [][\A i \in Visible :
            (/\ videoRefs[i].rejected
             /\ ev'.sync
             /\ isPlaying' /\ videosReady')
            => ~videoRefs'[i].rejected]_vars

\* C20: whenever the sync effect runs past its videosReady test, the leader
\* is seeked iff it stands more than 1 s from its mapped target or the clock
\* is more than 1 s from the value the effect last ran with; if seeked it
\* stands at the target, else where it stood; and the effect remembers the
\* clock's value.
C20_LeaderReconciled ==
    [][ev'.sync =>
        LET L == LowestVisible'
            before == IF videoRefs[L].mounted THEN videoRefs[L].currentTime ELSE 0
            target == IF videosInfo[L].isSegmented
                      THEN videosInfo[L].segmentStart + currentTime'
                      ELSE currentTime'
            far == Abs(before - target) > LeaderThreshold
            jumped == Abs(currentTime' - prevCurrentTimeRef) > JumpThreshold
        IN  /\ (L \in ev'.seeks) <=> (far \/ jumped)
            /\ videoRefs'[L].currentTime =
                  IF far \/ jumped THEN target ELSE before
            /\ prevCurrentTimeRef' = currentTime']_vars

\* C20 witness: a jump of the clock forced a seek of the leader, which stood
\* within 1 s of the target, off it.
C20_Witness ==
    /\ ev.sync
    /\ ev.jump
    /\ ev.main \in ev.seeks
    /\ ev.mainAt # MappedTarget(ev.main)
    /\ Abs(ev.mainAt - MappedTarget(ev.main)) <= LeaderThreshold
    /\ videoRefs[ev.main].currentTime = MappedTarget(ev.main)


\* ------------------------------------------- the dataset URL of a request
\* versionUtils.ts on the server: one module variable, currentDatasetUrl,
\* shared by every request the process renders.  One action is one run of
\* the event loop between two awaits.

DefaultDatasetUrl == "https://huggingface.co/datasets"

\* The dataset_url a request carries: none, or one of two servers.
DatasetUrls == {NoUrl, "https://a.example", "https://b.example"}

\* process.env.DATASET_URL of the process: unset, or a server.
EnvUrls == {NoUrl, "https://env.example"}

\* the module's variable and the environment, as the functions see them
Sv == [currentDatasetUrl |-> currentDatasetUrl, processEnv |-> processEnv]

\* setCurrentDatasetUrl(url): url || undefined, and TLS verification off
\* for a truthy url
SetCurrentDatasetUrl(sv, url) ==
    [sv EXCEPT
        !.currentDatasetUrl = IF url # NoUrl THEN url ELSE NoUrl,
        !.processEnv.NODE_TLS_REJECT_UNAUTHORIZED =
            IF url # NoUrl THEN "0" ELSE @]

\* getDatasetUrl(): currentDatasetUrl || process.env.DATASET_URL || default
GetDatasetUrl(sv) ==
    IF sv.currentDatasetUrl # NoUrl THEN sv.currentDatasetUrl
    ELSE IF sv.processEnv.DATASET_URL # NoUrl THEN sv.processEnv.DATASET_URL
    ELSE DefaultDatasetUrl

InFlight(c) == calls[c].pc # "idle"

NoneInFlight == \A c \in CallIds : ~InFlight(c)

\* withDatasetUrl(u, fn) is called (EpisodePage, for a request with
\* dataset_url = u) and runs to its await: previousUrl is taken, the URL is
\* set, fn is started.
Start(c, u) ==
    /\ ~InFlight(c)
    /\ LET sv == SetCurrentDatasetUrl(Sv, u)
       IN  /\ currentDatasetUrl' = sv.currentDatasetUrl
           /\ processEnv' = sv.processEnv
    /\ calls' =
          [k \in CallIds |->
              IF k = c
              THEN [IdleCall EXCEPT
                        !.pc = "awaiting",
                        !.datasetUrl = u,
                        !.previousUrl = currentDatasetUrl,
                        !.overlapped = ~NoneInFlight]
              ELSE IF InFlight(k) THEN [calls[k] EXCEPT !.overlapped = TRUE]
              ELSE calls[k]]
    /\ idleUrl' = IF NoneInFlight THEN currentDatasetUrl ELSE idleUrl
    /\ lastCall' = [NoCall EXCEPT !.fn = "withDatasetUrl", !.call = c, !.url = u]
    /\ UNCHANGED <<playerVars, viewerVars>>

\* fn goes on behind one of its awaits and builds a URL: getDatasetInfo and
\* buildVersionedUrl call getDatasetUrl()
FnRead(c) ==
    /\ calls[c].pc = "awaiting"
    /\ lastCall' = [NoCall EXCEPT !.fn = "getDatasetUrl", !.call = c,
                                  !.url = GetDatasetUrl(Sv)]
    /\ UNCHANGED <<currentDatasetUrl, processEnv, calls, idleUrl,
                   playerVars, viewerVars>>

\* fn's promise resolves or rejects
FnSettle(c, o) ==
    /\ calls[c].pc = "awaiting"
    /\ calls' = [calls EXCEPT ![c].pc = "settled", ![c].outcome = o]
    /\ lastCall' = [NoCall EXCEPT !.fn = "fn", !.call = c]
    /\ UNCHANGED <<currentDatasetUrl, processEnv, idleUrl,
                   playerVars, viewerVars>>

\* (variant) a finally block that restores nothing
RestoredNothing(call) == call.datasetUrl

\* what the finally block leaves in currentDatasetUrl
Restored(call) == call.previousUrl

\* the await of line 62 returns or throws: the finally block runs and the
\* call's promise settles as fn's did
Finally(c) ==
    /\ calls[c].pc = "settled"
    /\ currentDatasetUrl' = Restored(calls[c])
    /\ calls' = [calls EXCEPT ![c] = IdleCall]
    /\ lastCall' = [NoCall EXCEPT !.fn = "finally", !.call = c,
                                  !.url = calls[c].datasetUrl,
                                  !.alone = ~calls[c].overlapped,
                                  !.result = calls[c].outcome]
    /\ UNCHANGED <<processEnv, idleUrl, playerVars, viewerVars>>

\* The process before any page is on screen: the player's variables stay
\* as at a mount.
ServerInit ==
    /\ Mount(0)
    /\ videosInfo = <<SegInfo, PlainInfo>>
    /\ \E e \in EnvUrls : ModuleLoad(e)
    /\ ViewerMount(-1, FALSE)

NextDataset ==
    \/ \E c \in CallIds, u \in DatasetUrls : Start(c, u)
    \/ \E c \in CallIds : FnRead(c)
    \/ \E c \in CallIds, o \in {"resolved", "rejected"} : FnSettle(c, o)
    \/ \E c \in CallIds : Finally(c)

\* Requests served by EpisodePage, each inside withDatasetUrl, their awaits
\* interleaving.
DatasetSpec == ServerInit /\ [][NextDataset]_vars

\* C21 as stated: for a non-empty u, every getDatasetUrl() call fn makes
\* inside withDatasetUrl(u, fn) returns u, also with several calls in
\* flight.
C21_ReadsOwnUrl ==
    (lastCall.fn = "getDatasetUrl"
            /\ calls[lastCall.call].datasetUrl # NoUrl)
        => lastCall.url = calls[lastCall.call].datasetUrl

\* C22: a withDatasetUrl call that no other call overlapped leaves
\* currentDatasetUrl at the value it had before the call, whether fn
\* resolved or rejected, and settles as fn did.
C22_RestoresWhenAlone ==
    [][\A c \in CallIds :
          (calls[c].pc = "settled" /\ calls'[c].pc = "idle"
                /\ ~calls[c].overlapped)
          => /\ currentDatasetUrl' = idleUrl
             /\ lastCall'.result = calls[c].outcome]_vars

\* a call with a URL, alone, whose fn rejected, has completed
C22_Witness ==
    /\ lastCall.fn = "finally"
    /\ lastCall.alone
    /\ lastCall.url # NoUrl
    /\ lastCall.result = "rejected"
    /\ currentDatasetUrl = idleUrl

\* C25 as stated: once every call of a set of overlapping calls has
\* completed, currentDatasetUrl is what it was before the first started.
C25_NoLeak ==
    NoneInFlight => currentDatasetUrl = idleUrl

\* ------------------------------------------------ streams and hidden streams

\* C23: the timeupdate (wraparound included) or ended event of stream i
\* changes no other stream, and changes the clock only if i is the leader;
\* the sync effect and the play/pause effect seek, play and pause visible
\* streams only, and no step changes a stream that is and stays hidden.
C23_NoCrossWrites ==
    /\ [][ev'.event # NoIdx =>
            /\ \A j \in Indices \ {ev'.event} : videoRefs'[j] = videoRefs[j]
            /\ currentTime' # currentTime => ev'.event = LowestVisible]_vars
    /\ [](ev.seeks \cap hiddenVideos = {} /\ ev.early \cap hiddenVideos = {})
    /\ [][\A i \in hiddenVideos \cap hiddenVideos' :
            videoRefs'[i] = videoRefs[i]]_vars

\* the effects ran for a playing page with a stream hidden: the sync effect
\* seeked a visible stream and the hidden one, away from its target, stayed
C23_Witness ==
    /\ hiddenVideos # {}
    /\ isPlaying /\ videosReady
    /\ ev.sync /\ ev.seeks # {}
    /\ \E i \in hiddenVideos : videoRefs[i].currentTime # MappedTarget(i)
    /\ \A i \in Visible : ~videoRefs[i].paused

\* ------------------------------------------------ the t of the page's URL
\* The effect of EpisodeViewerInner that writes the clock's second into the
\* URL.  The clock and isPlaying are written by the player, the playback bar
\* and the keyboard: here by any writer, with any value.

\* units of media time in one second
StepsPerSecond == 20

\* Values written to the clock: 0, 0.5 s, 1.25 s, 2.25 s.
ViewerTimes == {0, 10, 25, 45}

\* The t of the URL the page is opened with, in seconds (-1: none).
UrlSeconds == {-1, 1}

\* Math.floor(currentTime)
FloorSeconds(t) == t \div StepsPerSecond

\* postParentMessageWithParams: a message is posted inside a parent window
PostParentMessageWithParams(embedded) == embedded

Vw ==
    [currentTime |-> currentTime, isPlaying |-> isPlaying,
     lastUrlSecondRef |-> lastUrlSecondRef, location |-> location]

\* the rewrite of lines 127-138
RewriteUrl(w, currentSec) ==
    [w EXCEPT
        !.lastUrlSecondRef = currentSec,
        !.location.t = currentSec,
        !.location.written = currentSec,
        !.location.rewrote = TRUE,
        !.location.posted = PostParentMessageWithParams(w.location.embedded)]

\* (variant) the URL effect without its isPlaying test
UrlEffectWhilePlaying(w) ==
    LET currentSec == FloorSeconds(w.currentTime)
    IN  IF w.currentTime > 0 /\ w.lastUrlSecondRef # currentSec
        THEN RewriteUrl(w, currentSec)
        ELSE w

\* the URL effect (lines 123-140)
UrlEffect(w) ==
    IF w.isPlaying THEN w
    ELSE LET currentSec == FloorSeconds(w.currentTime)
         IN  IF w.currentTime > 0 /\ w.lastUrlSecondRef # currentSec
             THEN RewriteUrl(w, currentSec)
             ELSE w

\* the state a run of the URL effect leaves
ViewerCommit(w) ==
    /\ currentTime' = w.currentTime
    /\ isPlaying' = w.isPlaying
    /\ lastUrlSecondRef' = w.lastUrlSecondRef
    /\ location' = w.location
    /\ UNCHANGED <<elementVars, serverVars>>

NoUrlEv(w) ==
    [w EXCEPT !.location.ran = FALSE, !.location.rewrote = FALSE,
              !.location.posted = FALSE]

\* The effects of the first render: the effect of lines 89-97 sets the
\* clock from the URL's t for the next render, the effect of lines 100-104
\* posts the path to the parent, and the URL effect runs with the clock of
\* this render.
ViewerMountEffects ==
    /\ ~viewerRendered.mounted
    /\ LET w0 == [NoUrlEv(Vw) EXCEPT
                    !.location.ran = TRUE,
                    !.location.posted =
                        PostParentMessageWithParams(location.embedded)]
           w1 == UrlEffect(w0)
       IN  ViewerCommit(
              IF location.t # -1
              THEN [w1 EXCEPT !.currentTime = location.t * StepsPerSecond]
              ELSE w1)
    /\ viewerRendered' =
          [currentTime |-> currentTime, isPlaying |-> isPlaying,
           mounted |-> TRUE]

\* some writer sets the clock
ClockWrite(t) ==
    /\ viewerRendered.mounted
    /\ t # currentTime
    /\ ViewerCommit([NoUrlEv(Vw) EXCEPT !.currentTime = t])
    /\ UNCHANGED viewerRendered

\* some writer sets isPlaying
PlayingWrite ==
    /\ viewerRendered.mounted
    /\ ViewerCommit([NoUrlEv(Vw) EXCEPT !.isPlaying = ~@])
    /\ UNCHANGED viewerRendered

\* the viewer renders with a clock or an isPlaying the URL effect has not
\* seen: the effect runs
ViewerRender ==
    /\ viewerRendered.mounted
    /\ <<viewerRendered.currentTime, viewerRendered.isPlaying>>
            # <<currentTime, isPlaying>>
    /\ ViewerCommit(UrlEffect([NoUrlEv(Vw) EXCEPT !.location.ran = TRUE]))
    /\ viewerRendered' =
          [currentTime |-> currentTime, isPlaying |-> isPlaying,
           mounted |-> TRUE]

ViewerInit ==
    /\ Mount(0)
    /\ videosInfo = <<SegInfo, PlainInfo>>
    /\ ModuleLoad(NoUrl)
    /\ \E s \in UrlSeconds, e \in BOOLEAN : ViewerMount(s, e)

NextViewer ==
    \/ ViewerMountEffects
    \/ \E t \in ViewerTimes : ClockWrite(t)
    \/ PlayingWrite
    \/ ViewerRender

\* The viewer's URL effect under any sequence of clock and isPlaying writes.
ViewerSpec == ViewerInit /\ [][NextViewer]_vars

\* C24: the URL effect rewrites t only with playback paused, the clock above
\* 0 and the clock's whole second different from the second last written;
\* nothing else rewrites t; and a run of the effect with isPlaying true
\* rewrites nothing and posts nothing.
C24_UrlRewrite ==
    /\ [][location'.t # location.t =>
            location'.ran /\ location'.rewrote]_vars
    /\ [][(location'.ran /\ location'.rewrote
                /\ viewerRendered' # viewerRendered) =>
            /\ ~isPlaying'
            /\ currentTime' > 0
            /\ FloorSeconds(currentTime') # location.written
            /\ location'.t = FloorSeconds(currentTime')
            /\ location'.written = location'.t]_vars
    /\ [][(location'.ran /\ isPlaying') =>
            /\ ~location'.rewrote /\ ~location'.posted
            /\ location'.t = location.t
            /\ lastUrlSecondRef' = lastUrlSecondRef]_vars

\* after a rewrite, the effect ran while playing with the clock in another
\* second and left the URL alone
C24_Witness ==
    /\ location.ran /\ ~location.rewrote
    /\ isPlaying
    /\ location.written # -1
    /\ currentTime > 0
    /\ FloorSeconds(currentTime) # location.written
    /\ location.t = location.written
    /\ location.embedded

\* ------------------------------------------------------ the flag is cleared

\* C26: with animation frames running, a set isSyncingRef is false again
\* later; and a timeupdate of the leader that finds the flag clear, 100 ms
\* or more after the last applied one, is applied: the clock is written
\* (with the leader's global time, or with 0 if the same event wraps the
\* leader), the flag is set and the throttle restarts.
C26_FeedbackResumes ==
    /\ isSyncingRef ~> ~isSyncingRef
    /\ [][(/\ ev'.event # NoIdx /\ ~ev'.ended
           /\ ev'.event = LowestVisible
           /\ ~isSyncingRef
           /\ lastTimeUpdateRef >= ThrottleTicks) =>
            /\ ev'.feedback = "applied"
            /\ isSyncingRef'
            /\ lastTimeUpdateRef' = 0
            /\ currentTime' \in
                  {GlobalTime(videoRefs[ev'.event], videosInfo[ev'.event]), 0}]_vars

\* an applied leader update set the flag less than 100 ms ago, the animation
\* frame has cleared it, and the leader plays on
C26_Witness ==
    /\ ~isSyncingRef
    /\ lastTimeUpdateRef < ThrottleTicks
    /\ isPlaying /\ videosReady
    /\ LowestVisible # NoIdx
    /\ Playing(videoRefs[LowestVisible])

\* --------------------------------------------------------- a leader exists

\* C27: whatever was hidden and shown, a stream is visible, and
\* firstVisibleIdx is a visible stream, the lowest.
C27_LeaderExists ==
    /\ Visible # {}
    /\ FirstVisibleIdx(hiddenVideos) \in Visible
    /\ FirstVisibleIdx(hiddenVideos) = LowestVisible

\* one stream is left visible, the others were hidden: its Hide Video
\* button is disabled and it is the leader
C27_Witness ==
    /\ Cardinality(Visible) = 1
    /\ hiddenVideos = Indices \ {Len(videosInfo)}
    /\ HideDisabled
    /\ inputs = Cardinality(hiddenVideos)
    /\ FirstVisibleIdx(hiddenVideos) = Len(videosInfo)

\* ------------------------------------------------- certificate verification

\* (variant) a clearCurrentDatasetUrl that switches verification back on
ClearCurrentDatasetUrlAndTls(sv) ==
    [sv EXCEPT
        !.currentDatasetUrl = NoUrl,
        !.processEnv.NODE_TLS_REJECT_UNAUTHORIZED = "unset"]

\* clearCurrentDatasetUrl()
ClearCurrentDatasetUrl(sv) == [sv EXCEPT !.currentDatasetUrl = NoUrl]

\* a page component calls setCurrentDatasetUrl(u) itself
SetUrl(u) ==
    /\ LET sv == SetCurrentDatasetUrl(Sv, u)
       IN  /\ currentDatasetUrl' = sv.currentDatasetUrl
           /\ processEnv' = sv.processEnv
    /\ lastCall' = [NoCall EXCEPT !.fn = "setCurrentDatasetUrl", !.url = u]
    /\ UNCHANGED <<calls, idleUrl, playerVars, viewerVars>>

\* a page component calls clearCurrentDatasetUrl()
ClearUrl ==
    /\ LET sv == ClearCurrentDatasetUrl(Sv)
       IN  /\ currentDatasetUrl' = sv.currentDatasetUrl
           /\ processEnv' = sv.processEnv
    /\ lastCall' = [NoCall EXCEPT !.fn = "clearCurrentDatasetUrl"]
    /\ UNCHANGED <<calls, idleUrl, playerVars, viewerVars>>

NextEnv ==
    \/ \E c \in CallIds, u \in DatasetUrls : Start(c, u)
    \/ \E c \in CallIds, o \in {"resolved", "rejected"} : FnSettle(c, o)
    \/ \E c \in CallIds : Finally(c)
    \/ \E u \in DatasetUrls : SetUrl(u)
    \/ ClearUrl

\* Every writer of currentDatasetUrl and of process.env that versionUtils.ts
\* exports, called in any order.
EnvSpec == ServerInit /\ [][NextEnv]_vars

\* C28: setCurrentDatasetUrl or withDatasetUrl with a non-empty URL leaves
\* NODE_TLS_REJECT_UNAUTHORIZED at '0', and no step of the module, the
\* clear and the restore included, takes it away from '0'.
C28_TlsStaysOff ==
    /\ []((lastCall.fn \in {"setCurrentDatasetUrl", "withDatasetUrl"}
                /\ lastCall.url # NoUrl)
            => processEnv.NODE_TLS_REJECT_UNAUTHORIZED = "0")
    /\ [][processEnv.NODE_TLS_REJECT_UNAUTHORIZED = "0"
            => processEnv'.NODE_TLS_REJECT_UNAUTHORIZED = "0"]_vars

\* in a process without DATASET_URL a withDatasetUrl call with a custom URL
\* has completed: nothing is in flight, currentDatasetUrl is restored to
\* undefined, and verification is still off for the requests to come
C28_Witness ==
    /\ processEnv.DATASET_URL = NoUrl
    /\ lastCall.fn = "finally"
    /\ lastCall.url # NoUrl
    /\ NoneInFlight
    /\ currentDatasetUrl = NoUrl
    /\ GetDatasetUrl(Sv) = DefaultDatasetUrl
    /\ processEnv.NODE_TLS_REJECT_UNAUTHORIZED = "0"

====
